---- MODULE Spec2Model ----
(***************************************************************************)
(* Online Tracks Bouncer: the session controller (App), the offline        *)
(* mixdown and export pipeline (bounceTracks, audioBufferToMp3 and the      *)
(* blob worker), the Bounce menu, the gain controls, the level meter, the   *)
(* waveform summary, the WAV encoder and the MP3 worker's encode run as     *)
(* state machines, one specification for each: Spec, SpecTracks, SpecOrder, *)
(* SpecMenu, SpecGain, SpecMeter, SpecTimeline, SpecPeaks, SpecWav, SpecMp3.*)
(*                                                                          *)
(* Units.  Gains are integers in hundredths (volume 0.8 is 80, master 1.0   *)
(* is 100): the sliders step by 0.01.  Samples are integers in hundredths   *)
(* of full scale (1.0 is GainScale); a mix value is                         *)
(* masterVolume * sum(volume * sample), in units of 1/GainScale^3,          *)
(* computed exactly (Float32 rounding is not modelled).                     *)
(* Durations are integers in ticks of 1/TickRate second, with               *)
(* TickRate = 2 * SampleRate, so that buffer.duration = length / sampleRate *)
(* is exact for the buffer rates of the model.  The gain controls, the     *)
(* meter and the encoder need a finer unit each, given with them.           *)
(***************************************************************************)
EXTENDS Integers, Sequences, FiniteSets, TLC

VARIABLES
    tracks,            \* App: useState<AudioTrack[]>
    masterVolume,      \* App: useState(1.0), in hundredths
    isExporting,       \* App: playback.isExporting
    exp,               \* the bounceTracks call in flight, its resources and its promise
    isBounceMenuOpen,  \* App: useState(false), the format menu of the Bounce button
    dom,               \* App: what the last committed render put on the page
    row,               \* TrackRow: its track's gain and mute flag, its dB field
    master,            \* MasterMeter: the master gain and its dB field
    peaksRef,          \* MasterMeter: peaksRef.current, the held peak of each channel
    canvas,            \* MasterMeter: the level of the bar draw painted for each channel
    mergedPeaks,       \* GlobalTimeline: useState<Float32Array | null>(null)
    peakTimer,         \* GlobalTimeline: the pending setTimeout(generatePeaks, 100)
                       \* calls, each the track list its generatePeaks closes over
    playbackDuration,  \* App: playback.duration
    maxDurationRef,    \* App: maxDurationRef.current
    wavIn,             \* audioBufferToWav: the buffer handed to it
    wavOut,            \* audioBufferToWav: the bytes of the Blob it returns
    mp3                \* WORKER_CODE: the state of one self.onmessage run

\* the variables of each component
appVars == <<tracks, masterVolume, isExporting, exp>>
menuVars == <<isBounceMenuOpen, dom>>
gainVars == <<row, master>>
meterVars == <<peaksRef, canvas>>
timelineVars == <<mergedPeaks, peakTimer>>
durationVars == <<playbackDuration, maxDurationRef>>
wavVars == <<wavIn, wavOut>>
mp3Vars == <<mp3>>

\* the variables outside the session state and the export
uiVars == <<menuVars, gainVars, meterVars, timelineVars, durationVars, wavVars, mp3Vars>>

vars == <<appVars, menuVars, gainVars, meterVars, timelineVars, durationVars, wavVars, mp3Vars>>

----------------------------------------------------------------------------
(* Bounds of the model *)

MaxTracks == 2

(* Program constants *)

SampleRate == 44100
OutChannels == 2
DefaultVolume == 80
DefaultMasterVolume == 100
GainScale == 100

TickRate == 2 * SampleRate

(* Input domains *)

TrackVolumes == {50, 100}
SliderVolumes == {50}
MasterVolumes == {100, 150}
Formats == {"wav", "mp3"}
IdPool == 1 .. MaxTracks

----------------------------------------------------------------------------
(* Decoded audio.  decodeAudioData (the host's decoder) turns a file into   *)
(* an AudioBuffer at the decoding context's sample rate; the model has      *)
(* three files: a long and a short one decoded at the output rate, the      *)
(* short one in stereo, and one decoded at twice the output rate whose      *)
(* duration is not a whole number of output samples.  Three longer files,   *)
(* "bar16", "bar8" and "bar5", are loaded only where the waveform summary   *)
(* is computed at widths of several buckets (SpecPeaks).                    *)

Files == {"long", "short", "hires"}

NoBuffer == "none"

FileBuffer(f) ==
    CASE f = "long"  -> [sampleRate |-> SampleRate, channels |-> << <<75, -50, 25>> >>]
      [] f = "short" -> [sampleRate |-> SampleRate, channels |-> << <<50>>, <<-25>> >>]
      [] f = "hires" -> [sampleRate |-> 2 * SampleRate, channels |-> << <<25, 50, -75>> >>]
      [] f = "bar16" -> [sampleRate |-> SampleRate,
                         channels |-> << <<10, -20, 30, -40, 50, -60, 70, -80,
                                           90, -95, 85, -75, 65, -55, 45, -35>> >>]
      [] f = "bar8"  -> [sampleRate |-> SampleRate,
                         channels |-> << <<-100, 15, -25, 35, -45, 55, -65, 5>> >>]
      [] f = "bar5"  -> [sampleRate |-> 2 * SampleRate,
                         channels |-> << <<60, -10, 40, -90, 20>> >>]

BufLength(b) == Len(b.channels[1])

NumberOfChannels(b) == Len(b.channels)

\* AudioBuffer.duration = length / sampleRate, in ticks
Duration(b) == BufLength(b) * (TickRate \div b.sampleRate)

\* Math.floor in place of Math.ceil
RenderLengthFloor(maxDuration) == (maxDuration * SampleRate) \div TickRate

\* Math.ceil(maxDuration * sampleRate), maxDuration in ticks
RenderLength(maxDuration) == (maxDuration * SampleRate + TickRate - 1) \div TickRate

----------------------------------------------------------------------------
(* Tracks *)

NewTrack(id, file) ==
    [id |-> id, file |-> file, volume |-> DefaultVolume, isMuted |-> FALSE,
     isSolo |-> FALSE, duration |-> 0, audioBuffer |-> NoBuffer]

TrackIds(ts) == {ts[i].id : i \in 1 .. Len(ts)}

IsUnmuted(t) == ~t.isMuted

\* the filter left out
AllTracks(ts) == ts

\* tracks.filter(t => !t.isMuted)
ActiveTracks(ts) == SelectSeq(ts, IsUnmuted)

----------------------------------------------------------------------------
(* The offline render graph: source -> trackGain -> masterGain -> destination *)

\* a source with source.loop = true
SourceSampleLooped(b, c, n) ==
    LET idx == ((n * b.sampleRate) \div SampleRate) % BufLength(b)
        ch  == IF NumberOfChannels(b) >= c THEN c ELSE 1
    IN b.channels[ch][idx + 1]

\* The sample a source node plays on output channel c (1-based) at output
\* frame n (0-based): the buffer is played once from time 0 at its own rate
\* (sample-and-hold when the rates differ), a mono buffer feeds both output
\* channels, and a source that has ended is silent.
SourceSample(b, c, n) ==
    LET idx == (n * b.sampleRate) \div SampleRate
        ch  == IF NumberOfChannels(b) >= c THEN c ELSE 1
    IN IF idx < BufLength(b) THEN b.channels[ch][idx + 1] ELSE 0

\* The input of the master gain node: the sum of the connected track gains
RECURSIVE MasterInput(_, _, _)
MasterInput(buffers, c, n) ==
    IF buffers = <<>> THEN 0
    ELSE Head(buffers).volume * SourceSample(Head(buffers).buffer, c, n)
         + MasterInput(Tail(buffers), c, n)

\* offlineCtx.startRendering(): OutChannels channels of `length` frames
RenderedBuffer(buffers, mv, length) ==
    [c \in 1 .. OutChannels |->
        [n \in 1 .. length |-> mv * MasterInput(buffers, c, n - 1)]]

----------------------------------------------------------------------------
(* bounceTracks and the export pipeline.  exp.pc is the position of the     *)
(* bounceTracks promise: suspended at an await ("decoding", "rendering",    *)
(* "awaitWorker") or settled ("resolved", "rejected").                      *)

NoArtifact == [format |-> "none", type |-> "none", frames |-> 0]

IdleExport ==
    [pc |-> "idle", format |-> "none", tracks |-> <<>>, masterVolume |-> 0,
     k |-> 0, buffers |-> <<>>, maxDuration |-> 0,
     tempCtx |-> "none", decodes |-> 0, rendering |-> FALSE, rendered |-> <<>>,
     url |-> "none", worker |-> "none", request |-> FALSE, outcome |-> "none",
     posted |-> 0, inbox |-> <<>>, error |-> "none", artifact |-> NoArtifact]

\* lines 500-503: the loop body once the track's buffer is at hand
PushBuffer(e, buffer, volume) ==
    [e EXCEPT !.maxDuration = IF Duration(buffer) > @ THEN Duration(buffer) ELSE @,
              !.buffers = Append(@, [buffer |-> buffer, volume |-> volume]),
              !.k = @ + 1]

\* lines 506-533: the decoding context is closed, the offline context is
\* created with ceil(maxDuration * 44100) frames and rendering is started
StartRendering(e) ==
    [e EXCEPT !.tempCtx = "closed", !.rendering = TRUE, !.pc = "rendering"]

\* lines 494-504: the loop over the active tracks runs until a track without
\* a cached buffer makes it await loadAudioBuffer
RECURSIVE DecodeLoop(_)
DecodeLoop(e) ==
    LET active == ActiveTracks(e.tracks) IN
    IF e.k > Len(active) THEN StartRendering(e)
    ELSE IF active[e.k].audioBuffer # NoBuffer
         THEN DecodeLoop(PushBuffer(e, FileBuffer(active[e.k].audioBuffer),
                                    active[e.k].volume))
         ELSE [e EXCEPT !.pc = "decoding", !.decodes = @ + 1]

\* the emptiness test made on the unfiltered list
BounceTracksEmptyCheck(ts, mv, format) ==
    LET e == [IdleExport EXCEPT !.format = format, !.tracks = ts, !.masterVolume = mv]
    IN IF Len(ts) = 0
       THEN [e EXCEPT !.pc = "rejected", !.error = "NoActiveTracks"]
       ELSE DecodeLoop([e EXCEPT !.tempCtx = "open", !.k = 1])

\* bounceTracks up to its first await or throw
BounceTracks(ts, mv, format) ==
    LET e == [IdleExport EXCEPT !.format = format, !.tracks = ts, !.masterVolume = mv]
    IN IF Len(ActiveTracks(ts)) = 0
       THEN [e EXCEPT !.pc = "rejected", !.error = "NoActiveTracks"]
       ELSE DecodeLoop([e EXCEPT !.tempCtx = "open", !.k = 1])

\* audioBufferToWav: the artifact of the lossless path
AudioBufferToWav(rendered) ==
    [format |-> "wav", type |-> "audio/wav", frames |-> Len(rendered[1])]

\* audioBufferToMp3 up to the end of the promise executor: the blob URL and
\* the worker exist, the handlers are set and the request is posted
AudioBufferToMp3(e) ==
    [e EXCEPT !.url = "live", !.worker = "alive", !.request = TRUE,
              !.pc = "awaitWorker"]

\* handleExport: the menu entry exists only while no export runs
HandleExport(format) ==
    /\ ~isExporting
    /\ Len(tracks) > 0
    /\ isExporting' = TRUE
    /\ exp' = BounceTracks(tracks, masterVolume, format)
    /\ UNCHANGED <<tracks, masterVolume, uiVars>>

\* loadAudioBuffer resolves: the on-demand decode of the k-th active track
DecodeResolve ==
    /\ exp.pc = "decoding"
    /\ LET t == ActiveTracks(exp.tracks)[exp.k]
       IN exp' = DecodeLoop(PushBuffer(exp, FileBuffer(t.file), t.volume))
    /\ UNCHANGED <<tracks, masterVolume, isExporting, uiVars>>

\* loadAudioBuffer rejects (the file cannot be decoded): bounceTracks throws
\* at line 497, with tempCtx.close() at line 506 not reached
DecodeReject ==
    /\ exp.pc = "decoding"
    /\ exp' = [exp EXCEPT !.pc = "rejected", !.error = "DecodeError"]
    /\ UNCHANGED <<tracks, masterVolume, isExporting, uiVars>>

\* startRendering resolves; the rendered buffer is converted to the format
RenderResolve ==
    /\ exp.pc = "rendering"
    /\ LET r == RenderedBuffer(exp.buffers, exp.masterVolume,
                               RenderLength(exp.maxDuration))
           e == [exp EXCEPT !.rendered = r, !.rendering = FALSE]
       IN exp' = IF exp.format = "mp3"
                 THEN AudioBufferToMp3(e)
                 ELSE [e EXCEPT !.pc = "resolved", !.artifact = AudioBufferToWav(r)]
    /\ UNCHANGED <<tracks, masterVolume, isExporting, uiVars>>

\* startRendering rejects
RenderReject ==
    /\ exp.pc = "rendering"
    /\ exp' = [exp EXCEPT !.pc = "rejected", !.error = "RenderError",
                          !.rendering = FALSE]
    /\ UNCHANGED <<tracks, masterVolume, isExporting, uiVars>>

----------------------------------------------------------------------------
(* The lossy path: the blob worker and the two handlers of audioBufferToMp3 *)

\* What one run of the worker can do with its single request:
\*   "blob"           the encode loop ends and { blob } is posted
\*   "nolib"          lamejs is undefined: { error: 'Failed to load ...' }
\*   "error"          the try block throws an Error with a message
\*   "errorNoMessage" the try block throws a value whose .message is empty
\*                    or undefined: { error: err.message } carries no text
\*   "scriptError"    importScripts throws: the script never installs
\*                    onmessage and the Worker gets an error event
\*   "uncaught"       an exception leaves the handler: an error event
WorkerOutcomes ==
    {"blob", "nolib", "error", "errorNoMessage", "scriptError", "uncaught"}

WorkerFailures == WorkerOutcomes \ {"blob"}

Undefined == "undefined"

\* the data of the message the worker posts
WorkerReply(outcome) ==
    CASE outcome = "blob"  -> [error |-> Undefined, blob |-> TRUE]
      [] outcome = "nolib" -> [error |-> "Failed to load lamejs in worker",
                               blob |-> FALSE]
      [] outcome = "error" -> [error |-> "encoder failure", blob |-> FALSE]
      [] outcome = "errorNoMessage" -> [error |-> "", blob |-> FALSE]

\* JavaScript truthiness of e.data.error
Truthy(s) == s \notin {"", Undefined}

\* the worker script and its self.onmessage, run on the request
WorkerRun(outcome) ==
    /\ exp.worker = "alive"
    /\ exp.request
    /\ exp' = IF outcome \in {"scriptError", "uncaught"}
              THEN [exp EXCEPT !.request = FALSE, !.outcome = outcome,
                               !.inbox = Append(@, [type |-> "error"])]
              ELSE [exp EXCEPT !.request = FALSE, !.outcome = outcome,
                               !.posted = @ + 1,
                               !.inbox = Append(@, [type |-> "message",
                                                    data |-> WorkerReply(outcome)])]
    /\ UNCHANGED <<tracks, masterVolume, isExporting, uiVars>>

\* worker.terminate(); URL.revokeObjectURL(workerUrl)
Cleanup(e) == [e EXCEPT !.worker = "terminated", !.url = "revoked", !.inbox = <<>>]

\* the error branch returning before the cleanup
OnMessageKeepsWorker(e, data) ==
    IF Truthy(data.error)
    THEN [e EXCEPT !.pc = "rejected", !.error = "WorkerEncodingError", !.inbox = Tail(@)]
    ELSE Cleanup(IF data.blob
                 THEN [e EXCEPT !.pc = "resolved",
                                !.artifact = [format |-> "mp3", type |-> "audio/mp3",
                                              frames |-> Len(e.rendered[1])]]
                 ELSE e)

\* worker.onmessage of audioBufferToMp3
OnMessage(e, data) ==
    Cleanup(IF Truthy(data.error)
            THEN [e EXCEPT !.pc = "rejected", !.error = "WorkerEncodingError"]
            ELSE IF data.blob
                 THEN [e EXCEPT !.pc = "resolved",
                                !.artifact = [format |-> "mp3", type |-> "audio/mp3",
                                              frames |-> Len(e.rendered[1])]]
                 ELSE e)

\* worker.onerror of audioBufferToMp3
OnError(e) ==
    Cleanup([e EXCEPT !.pc = "rejected", !.error = "WorkerError"])

WorkerOnMessage ==
    /\ exp.worker = "alive"
    /\ exp.inbox # <<>>
    /\ Head(exp.inbox).type = "message"
    /\ exp' = OnMessage(exp, Head(exp.inbox).data)
    /\ UNCHANGED <<tracks, masterVolume, isExporting, uiVars>>

WorkerOnError ==
    /\ exp.worker = "alive"
    /\ exp.inbox # <<>>
    /\ Head(exp.inbox).type = "error"
    /\ exp' = OnError(exp)
    /\ UNCHANGED <<tracks, masterVolume, isExporting, uiVars>>

\* handleExport after the await: the download, then the finally clause
ExportResolved ==
    /\ exp.pc = "resolved"
    /\ isExporting' = FALSE
    /\ exp' = IdleExport
    /\ UNCHANGED <<tracks, masterVolume, uiVars>>

\* handleExport's catch clause, then the finally clause
ExportRejected ==
    /\ exp.pc = "rejected"
    /\ isExporting' = FALSE
    /\ exp' = IdleExport
    /\ UNCHANGED <<tracks, masterVolume, uiVars>>

\* the steps of an export in flight
ExportStep ==
    \/ DecodeResolve
    \/ DecodeReject
    \/ RenderResolve
    \/ RenderReject
    \/ \E o \in WorkerOutcomes : WorkerRun(o)
    \/ WorkerOnMessage
    \/ WorkerOnError
    \/ ExportResolved
    \/ ExportRejected

----------------------------------------------------------------------------
(* Each specification below runs some of the components; the others stay    *)
(* as they are constructed.                                                 *)

Null == "null"

\* mergedPeaks when it is null (a summary has a bucket at least)
NoSummary == <<>>

\* what a render of App puts in the closures of the Bounce button and its menu
View(ts, mv, exporting, menuOpen) ==
    [tracks |-> ts, masterVolume |-> mv, isExporting |-> exporting,
     isBounceMenuOpen |-> menuOpen]

MenuAtRest ==
    /\ isBounceMenuOpen = FALSE
    /\ dom = View(<<>>, DefaultMasterVolume, FALSE, FALSE)

GainAtRest ==
    /\ row = [volume |-> 0, isMuted |-> FALSE, dbInput |-> "-inf", isEditingDb |-> FALSE]
    /\ master = [volume |-> 0, dbInput |-> "0.0", isEditingDb |-> FALSE]

MeterAtRest == peaksRef = [l |-> 0, r |-> 0] /\ canvas = [l |-> 0, r |-> 0]

TimelineAtRest ==
    /\ mergedPeaks = NoSummary
    /\ peakTimer = <<>>

DurationAtRest ==
    /\ playbackDuration = 0
    /\ maxDurationRef = 0

\* no Blob (a WAV Blob has its 44 header bytes at least)
NoBytes == <<>>

WavAtRest ==
    /\ wavIn = Null
    /\ wavOut = NoBytes

\* the worker before a message has reached it
Mp3Idle ==
    [pc |-> "idle", channels |-> 0, samplesL |-> <<>>, samplesR |-> <<>>,
     samplesL_int16 |-> <<>>, samplesR_int16 |-> <<>>, i |-> 0,
     calls |-> <<>>, mp3Data |-> <<>>, blob |-> <<>>]

\* no lossy encoding under way
Mp3AtRest == mp3 = Mp3Idle

----------------------------------------------------------------------------
(* Spec: the export pipeline, started on any track list of the session.     *)

\* a track as the session can hold it when an export is requested
TrackStates ==
    {[id |-> 0, file |-> f, volume |-> v, isMuted |-> m, isSolo |-> FALSE,
      duration |-> IF b THEN Duration(FileBuffer(f)) ELSE 0,
      audioBuffer |-> IF b THEN f ELSE NoBuffer] :
        f \in Files, v \in TrackVolumes, m \in BOOLEAN, b \in BOOLEAN}

TrackLists ==
    UNION {{[i \in 1 .. n |-> [ts[i] EXCEPT !.id = i]] : ts \in [1 .. n -> TrackStates]} :
            n \in 1 .. MaxTracks}

Init ==
    /\ tracks \in TrackLists
    /\ masterVolume \in MasterVolumes
    /\ isExporting = FALSE
    /\ exp = IdleExport
    /\ MenuAtRest /\ GainAtRest /\ MeterAtRest
    /\ TimelineAtRest /\ DurationAtRest /\ WavAtRest /\ Mp3AtRest

Next ==
    \/ \E format \in Formats : HandleExport(format)
    \/ ExportStep

Spec == Init /\ [][Next]_vars

----------------------------------------------------------------------------
(* The result of a whole bounceTracks call whose awaits all resolve *)

RECURSIVE AwaitDecodes(_)
AwaitDecodes(e) ==
    IF e.pc = "decoding"
    THEN LET t == ActiveTracks(e.tracks)[e.k]
         IN AwaitDecodes(DecodeLoop(PushBuffer(e, FileBuffer(t.file), t.volume)))
    ELSE e

\* the rendered mix of a track list, <<>> when bounceTracks throws
BounceMix(ts, mv) ==
    LET e == AwaitDecodes(BounceTracks(ts, mv, "wav"))
    IN IF e.pc = "rendering"
       THEN RenderedBuffer(e.buffers, mv, RenderLength(e.maxDuration))
       ELSE <<>>

----------------------------------------------------------------------------
(* The session controller: the handlers of App that edit the track list *)

\* addFiles: one new track per file, each with a fresh uuid
AddFiles(files, ids) ==
    /\ Len(files) = Len(ids)
    /\ Len(files) > 0
    /\ \A i, j \in 1 .. Len(ids) : i # j => ids[i] # ids[j]
    /\ \A i \in 1 .. Len(ids) : ids[i] \notin TrackIds(tracks)
    /\ tracks' = tracks \o [i \in 1 .. Len(files) |-> NewTrack(ids[i], files[i])]
    /\ UNCHANGED <<masterVolume, isExporting, exp>>

HandleVolumeChange(id, volume) ==
    /\ id \in TrackIds(tracks)
    /\ tracks' = [i \in 1 .. Len(tracks) |->
                    IF tracks[i].id = id THEN [tracks[i] EXCEPT !.volume = volume]
                    ELSE tracks[i]]
    /\ UNCHANGED <<masterVolume, isExporting, exp>>

HandleMuteToggle(id) ==
    /\ id \in TrackIds(tracks)
    /\ tracks' = [i \in 1 .. Len(tracks) |->
                    IF tracks[i].id = id THEN [tracks[i] EXCEPT !.isMuted = ~@]
                    ELSE tracks[i]]
    /\ UNCHANGED <<masterVolume, isExporting, exp>>

\* the solo flag toggled without the mute flags being rewritten
HandleSoloToggleFlagOnly(id) ==
    /\ id \in TrackIds(tracks)
    /\ tracks' = [i \in 1 .. Len(tracks) |->
                    IF tracks[i].id = id THEN [tracks[i] EXCEPT !.isSolo = ~@]
                    ELSE tracks[i]]
    /\ UNCHANGED <<masterVolume, isExporting, exp>>

HandleSoloToggle(id) ==
    /\ id \in TrackIds(tracks)
    /\ LET toggledTrack == CHOOSE t \in {tracks[i] : i \in 1 .. Len(tracks)} : t.id = id
           newSoloState == ~toggledTrack.isSolo
           updatedTracks == [i \in 1 .. Len(tracks) |->
                               IF tracks[i].id = id
                               THEN [tracks[i] EXCEPT !.isSolo = newSoloState]
                               ELSE tracks[i]]
           isAnySolo == \E i \in 1 .. Len(tracks) : updatedTracks[i].isSolo
       IN tracks' = [i \in 1 .. Len(tracks) |->
                       IF isAnySolo
                       THEN [updatedTracks[i] EXCEPT !.isMuted = ~updatedTracks[i].isSolo]
                       ELSE [updatedTracks[i] EXCEPT !.isMuted = FALSE]]
    /\ UNCHANGED <<masterVolume, isExporting, exp>>

HandleRemoveTrack(id) ==
    /\ id \in TrackIds(tracks)
    /\ LET Keep(t) == t.id # id
       IN tracks' = SelectSeq(tracks, Keep)
    /\ UNCHANGED <<masterVolume, isExporting, exp>>

\* the directions of moveTrack
Directions == {"up", "down"}

\* moveTrack that copies the moved track over its neighbour instead of swapping
MoveTrackOverwrite(index, direction) ==
    /\ index \in 0 .. Len(tracks) - 1
    /\ IF direction = "up" /\ index = 0 THEN tracks' = tracks
       ELSE IF direction = "down" /\ index = Len(tracks) - 1 THEN tracks' = tracks
       ELSE LET newIndex == IF direction = "up" THEN index - 1 ELSE index + 1
            IN tracks' = [tracks EXCEPT ![newIndex + 1] = tracks[index + 1]]
    /\ UNCHANGED <<masterVolume, isExporting, exp>>

\* moveTrack(index, direction): index counts from 0
MoveTrack(index, direction) ==
    /\ index \in 0 .. Len(tracks) - 1
    /\ IF direction = "up" /\ index = 0 THEN tracks' = tracks
       ELSE IF direction = "down" /\ index = Len(tracks) - 1 THEN tracks' = tracks
       ELSE LET newIndex == IF direction = "up" THEN index - 1 ELSE index + 1
                temp == tracks[index + 1]
            IN tracks' = [tracks EXCEPT ![index + 1] = tracks[newIndex + 1],
                                        ![newIndex + 1] = temp]
    /\ UNCHANGED <<masterVolume, isExporting, exp>>

\* onMasterVolumeChange = setMasterVolume
SetMasterVolume(vol) ==
    /\ masterVolume' = vol
    /\ UNCHANGED <<tracks, isExporting, exp>>

\* the file lists a drop or a file dialog can deliver into the free slots
FileLists == UNION {[1 .. n -> Files] : n \in 1 .. MaxTracks}

IdLists == UNION {[1 .. n -> IdPool] : n \in 1 .. MaxTracks}

InitTracks ==
    /\ tracks = <<>>
    /\ masterVolume = DefaultMasterVolume
    /\ isExporting = FALSE
    /\ exp = IdleExport
    /\ MenuAtRest /\ GainAtRest /\ MeterAtRest
    /\ TimelineAtRest /\ DurationAtRest /\ WavAtRest /\ Mp3AtRest

NextTracks ==
    \/ \E files \in FileLists : \E ids \in IdLists :
          /\ Len(tracks) + Len(files) <= MaxTracks
          /\ AddFiles(files, ids)
          /\ UNCHANGED uiVars
    \/ \E id \in IdPool : \E v \in SliderVolumes :
          HandleVolumeChange(id, v) /\ UNCHANGED uiVars
    \/ \E id \in IdPool : HandleMuteToggle(id) /\ UNCHANGED uiVars
    \/ \E id \in IdPool : HandleSoloToggle(id) /\ UNCHANGED uiVars
    \/ \E id \in IdPool : HandleRemoveTrack(id) /\ UNCHANGED uiVars
    \/ \E vol \in MasterVolumes : SetMasterVolume(vol) /\ UNCHANGED uiVars

SpecTracks == InitTracks /\ [][NextTracks]_vars

----------------------------------------------------------------------------
(* SpecOrder: the track list of a session reordered with the move buttons   *)
(* and soloed, started on any list of decoded tracks.                       *)

\* the track lists of a session whose tracks have all been decoded
OrderTrackLists ==
    {ts \in TrackLists : \A i \in 1 .. Len(ts) : ts[i].audioBuffer # NoBuffer}

InitOrder ==
    /\ tracks \in OrderTrackLists
    /\ masterVolume = DefaultMasterVolume
    /\ isExporting = FALSE
    /\ exp = IdleExport
    /\ MenuAtRest /\ GainAtRest /\ MeterAtRest
    /\ TimelineAtRest /\ DurationAtRest /\ WavAtRest /\ Mp3AtRest

NextOrder ==
    \/ \E index \in 0 .. MaxTracks - 1 : \E direction \in Directions :
          MoveTrack(index, direction) /\ UNCHANGED uiVars
    \/ \E id \in IdPool : HandleSoloToggle(id) /\ UNCHANGED uiVars

SpecOrder == InitOrder /\ [][NextOrder]_vars

----------------------------------------------------------------------------
(* Properties of the mixdown (Spec) *)

Unmuted(ts) == {i \in 1 .. Len(ts) : ts[i].isMuted = FALSE}

Muted(ts) == {i \in 1 .. Len(ts) : ts[i].isMuted = TRUE}

\* the duration of the audio of track t, as decoded
AudioDuration(t) == Duration(FileBuffer(t.file))

MaxOf(S) == CHOOSE d \in S : \A e \in S : e <= d

Rendered == exp.rendered # <<>>

\* C1: bounceTracks on a track list without an unmuted track (all muted, or
\* empty) throws the no-active-tracks error before any decoding context,
\* decode, render or worker exists, and yields no artifact.
C1_NoActiveTracksFailsFirst ==
    LET Failed(e) ==
            /\ e.pc = "rejected"
            /\ e.error = "NoActiveTracks"
            /\ e.tempCtx = "none"
            /\ e.decodes = 0
            /\ ~e.rendering
            /\ e.rendered = <<>>
            /\ e.worker = "none"
            /\ e.url = "none"
            /\ e.artifact = NoArtifact
    IN /\ (exp.pc # "idle" /\ Unmuted(exp.tracks) = {}) => Failed(exp)
       /\ \A format \in Formats : Failed(BounceTracks(<<>>, masterVolume, format))

C1_Witness ==
    /\ exp.pc = "rejected"
    /\ exp.error = "NoActiveTracks"
    /\ Len(exp.tracks) = MaxTracks
    /\ Muted(exp.tracks) = 1 .. MaxTracks

\* C2: the rendered mix has, on each of its two channels, exactly
\* ceil(maxDuration * sampleRate) frames, maxDuration being the longest
\* decoded duration among the unmuted tracks only.
C2_MixLength ==
    Rendered =>
        LET maxDuration == MaxOf({AudioDuration(exp.tracks[i]) : i \in Unmuted(exp.tracks)})
        IN /\ DOMAIN exp.rendered = 1 .. OutChannels
           /\ \A c \in 1 .. OutChannels :
                LET length == Len(exp.rendered[c])
                IN /\ length * TickRate >= maxDuration * SampleRate
                   /\ (length - 1) * TickRate < maxDuration * SampleRate

\* the longest track is muted and the mix has the length of the longest
\* unmuted one, a duration that is not a whole number of frames
C2_Witness ==
    /\ Rendered
    /\ LET maxDuration == MaxOf({AudioDuration(exp.tracks[i]) : i \in Unmuted(exp.tracks)})
       IN /\ \E i \in Muted(exp.tracks) : AudioDuration(exp.tracks[i]) > maxDuration
          /\ Len(exp.rendered[1]) * TickRate > maxDuration * SampleRate

\* what the track contributes at frame n (0-based) of output channel c when
\* its samples are laid from frame 0 on, one per frame, once
TrackSampleAt(t, c, n) ==
    LET b == FileBuffer(t.file)
    IN IF n < BufLength(b)
       THEN b.channels[IF c <= NumberOfChannels(b) THEN c ELSE 1][n + 1]
       ELSE 0

RECURSIVE GainedSum(_, _, _, _)
GainedSum(ts, S, c, n) ==
    IF S = {} THEN 0
    ELSE LET i == CHOOSE j \in S : TRUE
         IN ts[i].volume * TrackSampleAt(ts[i], c, n) + GainedSum(ts, S \ {i}, c, n)

AtOutputRate(ts) ==
    \A i \in Unmuted(ts) : FileBuffer(ts[i].file).sampleRate = SampleRate

C4_MutedContributesZero ==
    Rendered =>
        LET Keep(t) == t.isMuted = FALSE
        IN /\ exp.rendered = BounceMix(SelectSeq(exp.tracks, Keep), exp.masterVolume)
           /\ \A i \in Muted(exp.tracks) : \A v \in TrackVolumes \cup {0, DefaultVolume} :
                exp.rendered =
                    BounceMix([exp.tracks EXCEPT ![i].volume = v], exp.masterVolume)

C4_Witness ==
    /\ Rendered
    /\ Muted(exp.tracks) # {}
    /\ \E n \in 1 .. Len(exp.rendered[1]) : exp.rendered[1][n] # 0

----------------------------------------------------------------------------
(* Properties of the lossy path and of the settling of an export (Spec) *)

Settled == exp.pc \in {"resolved", "rejected"}

\* C8: an export that has been dispatched is never stuck: while
\* isExporting is set, a step of the export is enabled, so that it settles
\* and the finally clause clears the flag.
C8_ExportSettles == isExporting => ENABLED ExportStep

\* C9: once the caller has handled a failure of the worker, the pending
\* export is rejected, and it is never resolved with an artifact.
C9_WorkerFailureRejects ==
    exp.outcome \in WorkerFailures =>
        /\ exp.pc # "resolved"
        /\ exp.artifact = NoArtifact
        /\ exp.worker = "terminated" => exp.pc = "rejected"

----------------------------------------------------------------------------
(* Properties of solo and mute (SpecTracks) *)

AnySoloed(ts) == \E i \in 1 .. Len(ts) : ts[i].isSolo

EffectiveMute(ts, i) == ts[i].isMuted \/ (AnySoloed(ts) /\ ~ts[i].isSolo)

\* track i takes part in a mixdown of ts
InMixdown(ts, i) == \E k \in 1 .. Len(ActiveTracks(ts)) : ActiveTracks(ts)[k].id = ts[i].id

SameTrackIds == /\ Len(tracks') = Len(tracks)
                /\ \A i \in 1 .. Len(tracks) : tracks'[i].id = tracks[i].id

\* a step that turns the solo flag of track i on
SoloedNow(i) == SameTrackIds /\ ~tracks[i].isSolo /\ tracks'[i].isSolo

\* the mix of track t alone, scaled by its gain and the master gain
MixOfOne(t, mv) ==
    RenderedBuffer(<<[buffer |-> FileBuffer(t.file), volume |-> t.volume]>>, mv,
                   RenderLength(AudioDuration(t)))

C6_MixedIffNotEffectivelyMuted ==
    \A i \in 1 .. Len(tracks) : InMixdown(tracks, i) <=> ~EffectiveMute(tracks, i)

\* C7: a solo toggle changes the solo flag of the toggled track only and no
\* stored mute flag.
C7_SoloToggleKeepsMuteFlags ==
    [][\A i \in 1 .. Len(tracks) :
          (SameTrackIds /\ tracks'[i].isSolo # tracks[i].isSolo) =>
             /\ \A j \in 1 .. Len(tracks) : tracks'[j].isMuted = tracks[j].isMuted
             /\ \A j \in 1 .. Len(tracks) : j # i => tracks'[j].isSolo = tracks[j].isSolo]_vars

----------------------------------------------------------------------------
(* SpecMenu: the Bounce button, its format menu and the exports they start. *)
(* A click is handled with the closures of the last committed render (dom). *)
(* The state updates of a click handler are committed before the next       *)
(* event is dispatched (React flushes the updates of a discrete event       *)
(* synchronously), so a click action ends with the render of its new state. *)
(* The updates made after an await (handleExport's finally clause) are      *)
(* committed by a later render, the action Commit.                          *)

\* the Bounce button is disabled
BounceDisabled(view) == Len(view.tracks) = 0 \/ view.isExporting

\* the format menu is on the page
MenuShown(view) == view.isBounceMenuOpen /\ ~view.isExporting

\* the Bounce button's onClick
BounceButtonClick ==
    /\ ~BounceDisabled(dom)
    /\ isBounceMenuOpen' =
          IF ~dom.isExporting /\ Len(dom.tracks) > 0
          THEN ~dom.isBounceMenuOpen
          ELSE isBounceMenuOpen
    /\ dom' = View(tracks, masterVolume, isExporting, isBounceMenuOpen')
    /\ UNCHANGED appVars

\* handleClickOutside, on a mousedown outside the button and its menu
HandleClickOutside ==
    /\ isBounceMenuOpen' = FALSE
    /\ dom' = View(tracks, masterVolume, isExporting, FALSE)
    /\ UNCHANGED appVars

\* handleExport as the menu item's onClick calls it, but without the update
\* of playback.isExporting
MenuItemClickNoFlag(format) ==
    /\ MenuShown(dom)
    /\ isBounceMenuOpen' = FALSE
    /\ IF Len(dom.tracks) = 0
       THEN UNCHANGED <<isExporting, exp>>
       ELSE /\ UNCHANGED isExporting
            /\ exp' = BounceTracks(dom.tracks, dom.masterVolume, format)
    /\ dom' = View(tracks, masterVolume, isExporting', FALSE)
    /\ UNCHANGED <<tracks, masterVolume>>

\* a click on a format of the menu: handleExport(format) up to its await
MenuItemClick(format) ==
    /\ MenuShown(dom)
    /\ isBounceMenuOpen' = FALSE
    /\ IF Len(dom.tracks) = 0
       THEN UNCHANGED <<isExporting, exp>>
       ELSE /\ isExporting' = TRUE
            /\ exp' = BounceTracks(dom.tracks, dom.masterVolume, format)
    /\ dom' = View(tracks, masterVolume, isExporting', FALSE)
    /\ UNCHANGED <<tracks, masterVolume>>

\* the Clear button's onClick
ClearClick ==
    /\ Len(dom.tracks) > 0
    /\ tracks' = <<>>
    /\ dom' = View(<<>>, masterVolume, isExporting, isBounceMenuOpen)
    /\ UNCHANGED <<masterVolume, isExporting, exp, isBounceMenuOpen>>

\* the render that commits the updates made outside an event handler
Commit ==
    /\ dom # View(tracks, masterVolume, isExporting, isBounceMenuOpen)
    /\ dom' = View(tracks, masterVolume, isExporting, isBounceMenuOpen)
    /\ UNCHANGED <<appVars, isBounceMenuOpen>>

\* the sessions of one track
MenuTrackLists == {ts \in TrackLists : Len(ts) = 1}

InitMenu ==
    /\ tracks \in MenuTrackLists
    /\ masterVolume = DefaultMasterVolume
    /\ isExporting = FALSE
    /\ exp = IdleExport
    /\ isBounceMenuOpen = FALSE
    /\ dom = View(tracks, masterVolume, FALSE, FALSE)
    /\ GainAtRest /\ MeterAtRest /\ TimelineAtRest /\ DurationAtRest /\ WavAtRest /\ Mp3AtRest

\* the variables SpecMenu leaves alone
menuFrame == <<gainVars, meterVars, timelineVars, durationVars, wavVars, mp3Vars>>

NextMenu ==
    \/ BounceButtonClick /\ UNCHANGED menuFrame
    \/ HandleClickOutside /\ UNCHANGED menuFrame
    \/ \E format \in Formats : MenuItemClick(format) /\ UNCHANGED menuFrame
    \/ ClearClick /\ UNCHANGED menuFrame
    \/ ExportStep
    \/ Commit /\ UNCHANGED menuFrame

SpecMenu == InitMenu /\ [][NextMenu]_vars

\* C11: at most one export is in flight: whatever the order of clicks, state
\* updates and renders, a click that starts a bounceTracks call finds no
\* earlier call that has not yet completed or failed.
C11_OneExportInFlight ==
    [][\A format \in Formats :
          MenuItemClick(format) /\ Len(dom.tracks) > 0 => exp.pc = "idle"]_vars

\* an export is in flight and the render of the click that started it is
\* committed: the page offers no way to start a second one
C11_Witness ==
    /\ isExporting
    /\ exp.pc \in {"decoding", "rendering", "encoding"}
    /\ dom.isExporting
    /\ BounceDisabled(dom) /\ ~MenuShown(dom)

----------------------------------------------------------------------------
\* the resources a bounceTracks call has acquired are all released
Released(e) ==
    /\ e.tempCtx \in {"none", "closed"}
    /\ e.worker \in {"none", "terminated"}
    /\ e.url \in {"none", "revoked"}

\* C12: when bounceTracks fails (no active tracks, decode failure, render
\* failure, worker failure), the temporary decoding context, the worker and
\* the worker's blob URL it acquired are released by the time the error
\* reaches the caller.
C12_FailureReleasesResources ==
    exp.pc = "rejected" => Released(exp)

----------------------------------------------------------------------------
\* a track is Ready once handleTrackReady has stored its decoded buffer
IsReady(t) == t.audioBuffer # NoBuffer

ReadyTracks(ts) == SelectSeq(ts, IsReady)

\* C13: a track that is not Ready never contributes to a mixdown: the mix of
\* an export is the mix of the Ready tracks of the list it was requested on,
\* and holds no audio of an unmuted track that was not Ready.
C13_NotReadyNeverMixed ==
    Rendered => exp.rendered = BounceMix(ReadyTracks(exp.tracks), exp.masterVolume)

----------------------------------------------------------------------------
(* SpecGain: the gain controls of one TrackRow and of the MasterMeter: the  *)
(* slider and the editable dB field of each.                                *)
(*                                                                          *)
(* Here a gain is an integer in units of 1/FineScale (0.0001, the threshold *)
(* of getDbValue), a level is an integer in tenths of a dB, and the text of *)
(* a dB field is a string.  Math.pow and Math.log10 are tabulated at the    *)
(* levels and gains the model reaches, rounded to the unit.                 *)

FineScale == 10000

\* the gain a new track gets from addFiles, in units of 1/FineScale
NewTrackGain == DefaultVolume * (FineScale \div GainScale)

\* the positions of the track slider (min 0, max 1, step 0.01) and of the
\* master fader (min 0, max 1.5, step 0.01) the model moves them to
TrackSliderValues == {0, 100, 5000, FineScale}
MasterFaderValues == {0, FineScale, 15000}

\* the texts the model types into a dB field
TypedTexts == {"-inf", " -INF ", "abc", "12", "6", "-6.0", "-3.5", "-120"}

\* String.prototype.trim and toLowerCase
TrimLower(str) == IF str = " -INF " THEN "-inf" ELSE str

\* the texts parseFloat finds a number in; it returns NaN for every other
NumericTexts ==
    {"12", "12.0", "6", "6.0", "3.5", "3.0", "0.0", "-1.9", "-3.5", "-6.0", "-40.0", "-120"}

IsNaN(str) == str \notin NumericTexts

\* parseFloat of a numeric text, in tenths of a dB
ParseFloat(str) ==
    CASE str = "12" -> 120
      [] str = "12.0" -> 120
      [] str = "6" -> 60
      [] str = "6.0" -> 60
      [] str = "3.5" -> 35
      [] str = "3.0" -> 30
      [] str = "0.0" -> 0
      [] str = "-1.9" -> -19
      [] str = "-3.5" -> -35
      [] str = "-6.0" -> -60
      [] str = "-40.0" -> -400
      [] str = "-120" -> -1200

\* Math.pow(10, db / 20) for db in tenths of a dB, in units of 1/FineScale
Pow10Db(db) ==
    CASE db = 120 -> 39811
      [] db = 60 -> 19953
      [] db = 35 -> 14962
      [] db = 30 -> 14125
      [] db = 0 -> FineScale
      [] db = -19 -> 8035
      [] db = -35 -> 6683
      [] db = -60 -> 5012
      [] db = -400 -> 100
      [] db = -1200 -> 0

\* 20 * Math.log10(vol) rounded to one decimal, in tenths of a dB
Log10Db(vol) ==
    CASE vol = 39811 -> 120
      [] vol = 19953 -> 60
      [] vol = 15000 -> 35
      [] vol = 14962 -> 35
      [] vol = 14125 -> 30
      [] vol = FineScale -> 0
      [] vol = 8035 -> -19
      [] vol = 8000 -> -19
      [] vol = 6683 -> -35
      [] vol = 5012 -> -60
      [] vol = 5000 -> -60
      [] vol = 100 -> -400

\* Number.prototype.toFixed(1) of a level
ToFixed1(db) ==
    LET a == IF db < 0 THEN -db ELSE db
    IN (IF db < 0 THEN "-" ELSE "") \o ToString(a \div 10) \o "." \o ToString(a % 10)

\* getDbValue of TrackRow and of MasterMeter
GetDbValue(vol) == IF vol <= 1 THEN "-inf" ELSE ToFixed1(Log10Db(vol))

Min(a, b) == IF a < b THEN a ELSE b

Max(a, b) == IF a > b THEN a ELSE b

\* the gain after commitDbChange on the text of the field: the gain it passes
\* to onVolumeChange, with the level capped at maxDb and the gain clamped to
\* [0, maxVol], or the gain as it was when the text is no number
CommittedGain(dbInput, vol, maxDb, maxVol) ==
    LET valStr == TrimLower(dbInput)
    IN IF valStr = "-inf" THEN Max(0, Min(maxVol, 0))
       ELSE IF IsNaN(valStr) THEN vol
       ELSE Max(0, Min(maxVol, Pow10Db(Min(ParseFloat(valStr), maxDb))))

\* commitDbChange without the cap of the level and the clamp of the gain
UnclampedGain(dbInput, vol) ==
    LET valStr == TrimLower(dbInput)
    IN IF valStr = "-inf" THEN 0
       ELSE IF IsNaN(valStr) THEN vol
       ELSE Pow10Db(ParseFloat(valStr))

\* TrackRow's effect that syncs the field with the gain and the mute flag
RowSynced(r) ==
    IF r.isEditingDb THEN r
    ELSE [r EXCEPT !.dbInput = GetDbValue(IF r.isMuted THEN 0 ELSE r.volume)]

\* MasterMeter's effect that syncs the field with the master gain
MasterSynced(m) ==
    IF m.isEditingDb THEN m ELSE [m EXCEPT !.dbInput = GetDbValue(m.volume)]

\* a TrackRow is mounted for a track that addFiles created
MountTrackRow ==
    /\ row' = RowSynced([volume |-> NewTrackGain, isMuted |-> FALSE,
                         dbInput |-> "-inf", isEditingDb |-> FALSE])
    /\ UNCHANGED master

\* the track slider's onChange: handleVolumeChange(id, parseFloat(value))
RowSliderChange(v) ==
    /\ row' = RowSynced([row EXCEPT !.volume = v])
    /\ UNCHANGED master

\* the M button: handleMuteToggle(id)
RowMuteToggle ==
    /\ row' = RowSynced([row EXCEPT !.isMuted = ~@])
    /\ UNCHANGED master

\* onFocus of the track's dB field
RowDbFocus ==
    /\ ~row.isEditingDb
    /\ row' = [row EXCEPT !.isEditingDb = TRUE]
    /\ UNCHANGED master

\* onChange of the track's dB field
RowDbChange(text) ==
    /\ row.isEditingDb
    /\ row' = [row EXCEPT !.dbInput = text]
    /\ UNCHANGED master

\* TrackRow's commitDbChange without its cap and its clamp
RowCommitDbChangeUnclamped ==
    /\ row.isEditingDb
    /\ row' = RowSynced([row EXCEPT !.isEditingDb = FALSE,
                                    !.volume = UnclampedGain(row.dbInput, @)])
    /\ UNCHANGED master

\* TrackRow's commitDbChange, on blur of the dB field (Enter blurs it)
RowCommitDbChange ==
    /\ row.isEditingDb
    /\ row' = RowSynced([row EXCEPT !.isEditingDb = FALSE,
                                    !.volume = CommittedGain(row.dbInput, @, 0, FineScale)])
    /\ UNCHANGED master

\* the master fader's onChange: setMasterVolume(parseFloat(value))
MasterFaderChange(v) ==
    /\ master' = MasterSynced([master EXCEPT !.volume = v])
    /\ UNCHANGED row

\* onFocus of the master dB field
MasterDbFocus ==
    /\ ~master.isEditingDb
    /\ master' = [master EXCEPT !.isEditingDb = TRUE]
    /\ UNCHANGED row

\* onChange of the master dB field
MasterDbChange(text) ==
    /\ master.isEditingDb
    /\ master' = [master EXCEPT !.dbInput = text]
    /\ UNCHANGED row

\* MasterMeter's commitDbChange without its cap and its clamp
MasterCommitDbChangeUnclamped ==
    /\ master.isEditingDb
    /\ master' = MasterSynced([master EXCEPT !.isEditingDb = FALSE,
                                          !.volume = UnclampedGain(master.dbInput, @)])
    /\ UNCHANGED row

\* MasterMeter's commitDbChange, on blur of the dB field
MasterCommitDbChange ==
    /\ master.isEditingDb
    /\ master' = MasterSynced([master EXCEPT !.isEditingDb = FALSE,
                                          !.volume = CommittedGain(master.dbInput, @, 60,
                                                                   2 * FineScale)])
    /\ UNCHANGED row

InitGain ==
    /\ row = RowSynced([volume |-> NewTrackGain, isMuted |-> FALSE,
                        dbInput |-> "-inf", isEditingDb |-> FALSE])
    /\ master = MasterSynced([volume |-> DefaultMasterVolume * (FineScale \div GainScale),
                              dbInput |-> "0.0", isEditingDb |-> FALSE])
    /\ tracks = <<>>
    /\ masterVolume = DefaultMasterVolume
    /\ isExporting = FALSE
    /\ exp = IdleExport
    /\ MenuAtRest /\ MeterAtRest /\ TimelineAtRest /\ DurationAtRest /\ WavAtRest /\ Mp3AtRest

\* the variables SpecGain leaves alone
gainFrame == <<appVars, menuVars, meterVars, timelineVars, durationVars, wavVars, mp3Vars>>

NextGain ==
    \/ MountTrackRow /\ UNCHANGED gainFrame
    \/ \E v \in TrackSliderValues : RowSliderChange(v) /\ UNCHANGED gainFrame
    \/ RowMuteToggle /\ UNCHANGED gainFrame
    \/ RowDbFocus /\ UNCHANGED gainFrame
    \/ \E text \in TypedTexts : RowDbChange(text) /\ UNCHANGED gainFrame
    \/ RowCommitDbChange /\ UNCHANGED gainFrame
    \/ \E v \in MasterFaderValues : MasterFaderChange(v) /\ UNCHANGED gainFrame
    \/ MasterDbFocus /\ UNCHANGED gainFrame
    \/ \E text \in TypedTexts : MasterDbChange(text) /\ UNCHANGED gainFrame
    \/ MasterCommitDbChange /\ UNCHANGED gainFrame

SpecGain == InitGain /\ [][NextGain]_vars

\* C14: the gain of a track stays within [0, 1] whatever the slider changes
\* and the dB texts committed (a positive level, '-inf', a text that is no
\* number), and the track of a new row starts at gain 0.8.
C14_TrackGainInRange ==
    /\ [](row.volume \in 0 .. FineScale)
    /\ [][MountTrackRow => row'.volume = 8 * (FineScale \div 10)]_vars

\* the gain is at its upper end 1 and the field shows 0.0: where the commit
\* of a positive level ("12", "6") leaves the track
C14_Witness ==
    /\ row.volume = FineScale
    /\ ~row.isEditingDb
    /\ row.dbInput = "0.0"
    /\ ~row.isMuted

\* C15: the master gain stays within [0, 2] whatever the fader changes and
\* the dB texts committed; a committed level above +6 dB gives the gain of
\* +6 dB, and '-inf' gives the gain 0.
C15_MasterGainInRange ==
    /\ [](master.volume \in 0 .. 2 * FineScale)
    /\ [][MasterCommitDbChange =>
            LET valStr == TrimLower(master.dbInput)
            IN /\ valStr = "-inf" => master'.volume = 0
               /\ ~IsNaN(valStr) /\ ParseFloat(valStr) > 60 =>
                     master'.volume = Pow10Db(60)]_vars

\* the master gain is the gain of +6 dB and the field shows 6.0: where the
\* commit of "12" or of "6" leaves it
C15_Witness ==
    /\ master.volume = Pow10Db(60)
    /\ ~master.isEditingDb
    /\ master.dbInput = "6.0"

----------------------------------------------------------------------------
(* SpecMeter: the level meter of MasterMeter.  Each animation frame, draw    *)
(* reads one window of byte samples from the analyser of each channel,      *)
(* takes its RMS and updates the held peak of the channel.                  *)
(*                                                                          *)
(* A window has BinCount bytes (analyser.frequencyBinCount, 128 in the      *)
(* program).  An RMS is an integer in units of 1/128 (the windows of the     *)
(* model have an integral one); renderVal and the peaks are integers in     *)
(* units of 1/MeterScale, in which val * 4 and the decay 0.005 are whole.   *)

BinCount == 4

MeterScale == 800

\* peakObj.current -= 0.005
Decay == MeterScale \div 200

\* the windows getByteTimeDomainData delivers: silence (every byte 128), a
\* faint and a loud constant offset, and a square wave around 128
ConstWindow(d) == [i \in 1 .. BinCount |-> 128 + d]
SquareWindow(d) == [i \in 1 .. BinCount |-> IF i % 2 = 1 THEN 128 + d ELSE 128 - d]
Windows == {ConstWindow(0), ConstWindow(1), SquareWindow(8), ConstWindow(40)}

\* the windows of the two channels on one frame: the left channel gets every
\* window, the right channel the silent and the faint one
StereoWindows == Windows \X {ConstWindow(0), ConstWindow(1)}

RECURSIVE SumSquares(_, _)
SumSquares(dataArray, n) ==
    IF n = 0 THEN 0
    ELSE SumSquares(dataArray, n - 1) + (dataArray[n] - 128) * (dataArray[n] - 128)

\* Math.sqrt, rounded down
Sqrt(x) == CHOOSE r \in 0 .. 128 : r * r <= x /\ x < (r + 1) * (r + 1)

\* getRMS, in units of 1/128
GetRMS(dataArray) == Sqrt(SumSquares(dataArray, BinCount) \div BinCount)

\* renderVal = Math.min(val * 4, 1)
RenderVal(val) == Min((val * 4 * MeterScale) \div 128, MeterScale)

\* drawChannel's peak logic without the floor at 0
DrawChannelNoFloor(val, peak) ==
    IF RenderVal(val) >= peak THEN RenderVal(val) ELSE peak - Decay

\* drawChannel's peak logic with a decay of 0.01
DrawChannelFastDecay(val, peak) ==
    LET held == IF RenderVal(val) >= peak THEN RenderVal(val) ELSE peak - 2 * Decay
    IN IF held < 0 THEN 0 ELSE held

\* drawChannel's peak logic: the new value of peakObj.current
DrawChannel(val, peak) ==
    LET held == IF RenderVal(val) >= peak THEN RenderVal(val) ELSE peak - Decay
    IN IF held < 0 THEN 0 ELSE held

\* one animation frame: draw
Draw(dataL, dataR) ==
    /\ peaksRef' = [l |-> DrawChannel(GetRMS(dataL), peaksRef.l),
                    r |-> DrawChannel(GetRMS(dataR), peaksRef.r)]
    /\ canvas' = [l |-> RenderVal(GetRMS(dataL)), r |-> RenderVal(GetRMS(dataR))]

InitMeter ==
    /\ peaksRef = [l |-> 0, r |-> 0]
    /\ canvas = [l |-> 0, r |-> 0]
    /\ tracks = <<>>
    /\ masterVolume = DefaultMasterVolume
    /\ isExporting = FALSE
    /\ exp = IdleExport
    /\ MenuAtRest /\ GainAtRest /\ TimelineAtRest /\ DurationAtRest /\ WavAtRest /\ Mp3AtRest

NextMeter ==
    /\ \E data \in StereoWindows : Draw(data[1], data[2])
    /\ UNCHANGED <<appVars, menuVars, gainVars, timelineVars, durationVars, wavVars, mp3Vars>>

SpecMeter == InitMeter /\ [][NextMeter]_vars

\* the peak-hold rule of one channel over one tick: from peak p to peak q on
\* a window of level renderVal
PeakHold(renderVal, p, q) ==
    /\ renderVal >= p => q = renderVal
    /\ renderVal < p => q = Max(p - Decay, 0) /\ q < p
    /\ renderVal = 0 /\ p = 0 => q = 0

\* C16: on every tick and for each channel, with renderVal = min(rms * 4, 1):
\* the peak becomes renderVal when renderVal is at least the peak, and falls
\* by 0.005, floored at 0, otherwise; it never rises on a tick whose renderVal
\* is below it, and under silence it falls on every tick until it is 0, where
\* it stays.
C16_PeakHoldAndDecay ==
    [][\A data \in StereoWindows :
          Draw(data[1], data[2]) =>
             /\ PeakHold(Min(GetRMS(data[1]) * (MeterScale \div 32), MeterScale),
                         peaksRef.l, peaksRef'.l)
             /\ PeakHold(Min(GetRMS(data[2]) * (MeterScale \div 32), MeterScale),
                         peaksRef.r, peaksRef'.r)]_vars

\* the left peak has fallen once from full scale; the right peak is within
\* one decay of the floor, on its way down from a faint window
C16_Witness ==
    /\ peaksRef.l = MeterScale - Decay
    /\ peaksRef.r = 1

----------------------------------------------------------------------------
(* SpecTimeline: the track list, the playback duration App derives from it  *)
(* and the waveform summary of GlobalTimeline.                              *)
(*                                                                          *)
(* GlobalTimeline is mounted while the track list is not empty.  Its effect *)
(* on [tracks, duration] runs after every change of the track list: it      *)
(* clears the pending timeout and sets a new one, whose generatePeaks       *)
(* closes over the new list.  A bucket of the summary is an integer in      *)
(* units of 1/(100 * GainScale): a sample magnitude times a gain.           *)

\* containerRef.current.clientWidth when generatePeaks runs
Widths == {2, 3}

\* handleTrackReady(id, ws, buffer): the decode of the track's file is done
HandleTrackReady(id) ==
    /\ \E i \in 1 .. Len(tracks) : tracks[i].id = id /\ tracks[i].audioBuffer = NoBuffer
    /\ LET t == CHOOSE t \in {tracks[i] : i \in 1 .. Len(tracks)} : t.id = id
           duration == Duration(FileBuffer(t.file))
       IN /\ tracks' = [i \in 1 .. Len(tracks) |->
                          IF tracks[i].id = id
                          THEN [tracks[i] EXCEPT !.audioBuffer = t.file,
                                                 !.duration = duration]
                          ELSE tracks[i]]
          /\ IF duration > maxDurationRef
             THEN maxDurationRef' = duration /\ playbackDuration' = duration
             ELSE UNCHANGED <<maxDurationRef, playbackDuration>>
    /\ UNCHANGED <<masterVolume, isExporting, exp>>

\* the Clear button: setTracks([])
ClearTracks ==
    /\ Len(tracks) > 0
    /\ tracks' = <<>>
    /\ UNCHANGED <<masterVolume, isExporting, exp>>

\* Math.max(...tracks.map(t => t.duration || 0))
MaxDur(ts) == MaxOf({0} \cup {ts[i].duration : i \in 1 .. Len(ts)})

\* Math.ceil(a / b)
CeilDiv(a, b) == (a + b - 1) \div b

\* the sample indices the inner loop of generatePeaks reads for bucket i
\* (counted from 0): start + Math.floor((j/10)*step) where idx < data.length
ProbesRead(data, step, i) ==
    {idx \in {i * step + ((j * step) \div 10) : j \in 0 .. 9} : idx < Len(data)}

\* the inner loop of generatePeaks: the largest magnitude among the 10 probes
\* of bucket i (counted from 0)
BucketMax(data, step, i) ==
    LET Abs(x) == IF x < 0 THEN -x ELSE x
    IN MaxOf({0} \cup {Abs(data[idx + 1]) : idx \in ProbesRead(data, step, i)})

\* the buckets of the summary after the tracks ts[1 .. n] have been merged
RECURSIVE MergeTracks(_, _, _, _)
MergeTracks(ts, n, width, maxDur) ==
    IF n = 0 THEN [i \in 1 .. width |-> 0]
    ELSE LET peaks == MergeTracks(ts, n - 1, width, maxDur)
             track == ts[n]
         IN IF track.audioBuffer = NoBuffer \/ track.isMuted THEN peaks
            ELSE LET data == FileBuffer(track.audioBuffer).channels[1]
                     step == CeilDiv(Len(data), width)
                     activePixels == (width * track.duration) \div maxDur
                 IN [i \in 1 .. width |->
                       IF i <= activePixels
                       THEN Max(peaks[i], BucketMax(data, step, i - 1) * track.volume)
                       ELSE peaks[i]]

\* the buckets when overlapping tracks are added up
RECURSIVE MergeTracksSummed(_, _, _, _)
MergeTracksSummed(ts, n, width, maxDur) ==
    IF n = 0 THEN [i \in 1 .. width |-> 0]
    ELSE LET peaks == MergeTracksSummed(ts, n - 1, width, maxDur)
             track == ts[n]
         IN IF track.audioBuffer = NoBuffer \/ track.isMuted THEN peaks
            ELSE LET data == FileBuffer(track.audioBuffer).channels[1]
                     step == CeilDiv(Len(data), width)
                     activePixels == (width * track.duration) \div maxDur
                 IN [i \in 1 .. width |->
                       IF i <= activePixels
                       THEN peaks[i] + BucketMax(data, step, i - 1) * track.volume
                       ELSE peaks[i]]

\* a summary whose buckets are sums
GeneratePeaksSummed(ts, width) == MergeTracksSummed(ts, Len(ts), width, MaxDur(ts))

\* a summary that lacks its last bucket
GeneratePeaksShort(ts, width) ==
    SubSeq(MergeTracks(ts, Len(ts), width, MaxDur(ts)), 1, width - 1)

\* the summary generatePeaks sets for a list with a decoded track
GeneratePeaks(ts, width) == MergeTracks(ts, Len(ts), width, MaxDur(ts))

\* the effect that sets its timeout without the cleanup clearing the last one
TimelineEffectNoClear ==
    IF tracks' = <<>>
    THEN mergedPeaks' = NoSummary /\ peakTimer' = <<>>
    ELSE peakTimer' = Append(peakTimer, tracks') /\ UNCHANGED mergedPeaks

\* the effect of GlobalTimeline after a change of the track list (its cleanup
\* clears the pending timeout, then a new one is set for the new list), and the
\* unmount of GlobalTimeline when the list is empty
TimelineEffect ==
    IF tracks' = <<>>
    THEN mergedPeaks' = NoSummary /\ peakTimer' = <<>>
    ELSE peakTimer' = <<tracks'>> /\ UNCHANGED mergedPeaks

\* the timeout fires: generatePeaks
GeneratePeaksTimeout(width) ==
    /\ peakTimer # <<>>
    /\ peakTimer' = Tail(peakTimer)
    /\ mergedPeaks' = IF MaxDur(Head(peakTimer)) = 0 THEN mergedPeaks
                      ELSE GeneratePeaks(Head(peakTimer), width)
    /\ UNCHANGED <<appVars, durationVars>>

InitTimeline ==
    /\ tracks = <<>>
    /\ masterVolume = DefaultMasterVolume
    /\ isExporting = FALSE
    /\ exp = IdleExport
    /\ mergedPeaks = NoSummary
    /\ peakTimer = <<>>
    /\ playbackDuration = 0
    /\ maxDurationRef = 0
    /\ MenuAtRest /\ GainAtRest /\ MeterAtRest /\ WavAtRest /\ Mp3AtRest

\* the variables SpecTimeline leaves alone
timelineFrame == <<menuVars, gainVars, meterVars, wavVars, mp3Vars>>

NextTimeline ==
    \/ \E files \in FileLists : \E ids \in IdLists :
          /\ Len(tracks) + Len(files) <= MaxTracks
          /\ AddFiles(files, ids)
          /\ TimelineEffect
          /\ UNCHANGED <<durationVars, timelineFrame>>
    \/ \E id \in IdPool :
          HandleTrackReady(id) /\ TimelineEffect /\ UNCHANGED timelineFrame
    \/ \E id \in IdPool :
          /\ HandleMuteToggle(id)
          /\ TimelineEffect
          /\ UNCHANGED <<durationVars, timelineFrame>>
    \/ \E id \in IdPool :
          /\ HandleRemoveTrack(id)
          /\ TimelineEffect
          /\ UNCHANGED <<durationVars, timelineFrame>>
    \/ ClearTracks /\ TimelineEffect /\ UNCHANGED <<durationVars, timelineFrame>>
    \/ \E width \in Widths : GeneratePeaksTimeout(width) /\ UNCHANGED timelineFrame

SpecTimeline == InitTimeline /\ [][NextTimeline]_vars

\* C17: every recomputation replaces the summary as a whole: once a change
\* of the track list has been processed, the summary on display is the one
\* of the current list, and holds no bucket of a track that has left it, also
\* when the tracks that are left have not finished decoding.
C17_SummaryIsOfCurrentTracks ==
    peakTimer = <<>> /\ mergedPeaks # NoSummary =>
        mergedPeaks = GeneratePeaks(tracks, Len(mergedPeaks))

\* C18: every summary that is produced has exactly the requested number of
\* buckets, and every bucket is a number that is not negative.
C18_SummaryShape ==
    /\ [](mergedPeaks # NoSummary =>
             /\ Len(mergedPeaks) \in Widths
             /\ \A i \in 1 .. Len(mergedPeaks) : mergedPeaks[i] >= 0)
    /\ [][\A width \in Widths :
             GeneratePeaksTimeout(width) /\ MaxDur(tracks) > 0 =>
                Len(mergedPeaks') = width]_vars

\* a summary of three buckets over a decoded track, with a bucket above 0
\* and a bucket at 0
C18_Witness ==
    /\ mergedPeaks # NoSummary
    /\ Len(mergedPeaks) = 3
    /\ \E i \in 1 .. 3 : mergedPeaks[i] > 0
    /\ \E i \in 1 .. 3 : mergedPeaks[i] = 0
    /\ peakTimer = <<>>

\* C19: after every change of the track list (a track becomes ready, a track
\* is removed, the list is cleared) the playback duration is the largest
\* duration among the tracks of the list, 0 when there is none; it follows
\* the list down as well as up.
C19_DurationIsMaxOverTracks == playbackDuration = MaxDur(tracks)

----------------------------------------------------------------------------
(* SpecWav: audioBufferToWav as a function from an AudioBuffer to the bytes *)
(* of the Blob it returns.  A sample is an integer in hundredths of full    *)
(* scale; a byte is an integer in 0 .. 255.                                 *)

MaxFrames == 2

\* the sample values of the buffers: inside, at and beyond full scale
PcmSamples == {-150, -100, -1, 0, 90, 100, 150}

\* the rates of the buffers (bounceTracks renders at SampleRate)
PcmRates == {SampleRate, 48000}

\* the sample values of the right channel of a stereo buffer
PcmSamplesRight == {-1, 0, 100}

\* the buffers handed to audioBufferToWav: one or two channels of 1 to
\* MaxFrames frames
WavBuffers ==
    {[sampleRate |-> r, channels |-> chs] :
        r \in PcmRates,
        chs \in UNION {{<<l>> : l \in [1 .. n -> PcmSamples]}
                         \cup {<<l, rt>> : l \in [1 .. n -> PcmSamples],
                                           rt \in [1 .. n -> PcmSamplesRight]} :
                       n \in 1 .. MaxFrames}}

\* DataView.setUint16 and setUint32, little-endian
Uint16Bytes(x) == <<x % 256, (x \div 256) % 256>>
Uint32Bytes(x) ==
    <<x % 256, (x \div 256) % 256, (x \div 65536) % 256, (x \div 16777216) % 256>>

\* DataView.setInt16 of a number: truncated toward zero, in two's complement
Int16Bytes(num, den) ==
    LET mag == (IF num < 0 THEN -num ELSE num) \div den
        v == IF num < 0 THEN (65536 - mag) % 65536 ELSE mag
    IN Uint16Bytes(v)

\* writeString of 'RIFF', 'WAVE', 'fmt ' and 'data': the char codes
Riff == <<82, 73, 70, 70>>
Wave == <<87, 65, 86, 69>>
Fmt == <<102, 109, 116, 32>>
Data == <<100, 97, 116, 97>>

\* interleave that writes the left channel and then the right channel
InterleavePlanar(inputL, inputR) == inputL \o inputR

\* interleave
Interleave(inputL, inputR) ==
    [index \in 1 .. Len(inputL) + Len(inputR) |->
        IF index % 2 = 1 THEN inputL[(index + 1) \div 2] ELSE inputR[index \div 2]]

\* floatTo16BitPCM without the clamp of the sample
Pcm16Unclamped(sample) ==
    IF sample < 0 THEN Int16Bytes(sample * 32768, 100)
    ELSE Int16Bytes(sample * 32767, 100)

\* the two bytes floatTo16BitPCM writes for one sample
Pcm16(sample) ==
    LET t == Max(-100, Min(100, sample))
    IN IF t < 0 THEN Int16Bytes(t * 32768, 100) ELSE Int16Bytes(t * 32767, 100)

\* floatTo16BitPCM: the bytes written from offset 44
RECURSIVE FloatTo16BitPCM(_)
FloatTo16BitPCM(input) ==
    IF input = <<>> THEN <<>>
    ELSE Pcm16(Head(input)) \o FloatTo16BitPCM(Tail(input))

\* encodeWAV for format 1 (16-bit PCM): the bytes of the Blob
EncodeWAV(samples, format, sampleRate, numChannels, bitDepth) ==
    LET bytesPerSample == bitDepth \div 8
        blockAlign == numChannels * bytesPerSample
    IN Riff \o Uint32Bytes(36 + Len(samples) * bytesPerSample)
       \o Wave \o Fmt \o Uint32Bytes(16)
       \o Uint16Bytes(format) \o Uint16Bytes(numChannels)
       \o Uint32Bytes(sampleRate) \o Uint32Bytes(sampleRate * blockAlign)
       \o Uint16Bytes(blockAlign) \o Uint16Bytes(bitDepth)
       \o Data \o Uint32Bytes(Len(samples) * bytesPerSample)
       \o FloatTo16BitPCM(samples)

\* audioBufferToWav(buffer), as bounceTracks calls it (no float32 option)
AudioBufferToWavBytes(buffer) ==
    LET numChannels == NumberOfChannels(buffer)
        result == IF numChannels = 2
                  THEN Interleave(buffer.channels[1], buffer.channels[2])
                  ELSE buffer.channels[1]
    IN EncodeWAV(result, 1, buffer.sampleRate, numChannels, 16)

\* the call of audioBufferToWav on the buffer
EncodeWav ==
    /\ wavOut = NoBytes
    /\ wavOut' = AudioBufferToWavBytes(wavIn)
    /\ UNCHANGED wavIn

InitWav ==
    /\ wavIn \in WavBuffers
    /\ wavOut = NoBytes
    /\ tracks = <<>>
    /\ masterVolume = DefaultMasterVolume
    /\ isExporting = FALSE
    /\ exp = IdleExport
    /\ MenuAtRest /\ GainAtRest /\ MeterAtRest /\ TimelineAtRest /\ DurationAtRest
    /\ Mp3AtRest

NextWav ==
    /\ EncodeWav
    /\ UNCHANGED <<appVars, menuVars, gainVars, meterVars, timelineVars, durationVars,
                   mp3Vars>>

SpecWav == InitWav /\ [][NextWav]_vars

\* the little-endian fields read back at a byte offset (counted from 0)
Uint16At(bytes, offset) == bytes[offset + 1] + 256 * bytes[offset + 2]
Uint32At(bytes, offset) ==
    bytes[offset + 1] + 256 * bytes[offset + 2] + 65536 * bytes[offset + 3]
    + 16777216 * bytes[offset + 4]

\* C20: the 16-bit WAV artifact of a buffer of C channels, N frames and rate
\* R has exactly 44 + 2*C*N bytes; its header holds the format tag 1, C
\* channels, the rate R, the byte rate R * blockAlign, the block align 2*C,
\* 16 bits per sample, the data length 2*C*N and the RIFF length 36 + 2*C*N;
\* the samples follow frame by frame, left before right.
C20_WavLayout ==
    wavOut # NoBytes =>
        LET C == Len(wavIn.channels)
            N == Len(wavIn.channels[1])
            R == wavIn.sampleRate
        IN /\ Len(wavOut) = 44 + 2 * C * N
           /\ SubSeq(wavOut, 1, 4) = <<82, 73, 70, 70>>
           /\ Uint32At(wavOut, 4) = 36 + 2 * C * N
           /\ Uint16At(wavOut, 20) = 1
           /\ Uint16At(wavOut, 22) = C
           /\ Uint32At(wavOut, 24) = R
           /\ Uint32At(wavOut, 28) = R * (2 * C)
           /\ Uint16At(wavOut, 32) = 2 * C
           /\ Uint16At(wavOut, 34) = 16
           /\ Uint32At(wavOut, 40) = 2 * C * N
           /\ \A n \in 0 .. N - 1 : \A c \in 0 .. C - 1 :
                 SubSeq(wavOut, 44 + 2 * (n * C + c) + 1, 44 + 2 * (n * C + c) + 2)
                    = Pcm16(wavIn.channels[c + 1][n + 1])

\* the artifact of a stereo buffer of MaxFrames frames whose channels differ
\* in every frame
C20_Witness ==
    /\ wavOut # NoBytes
    /\ Len(wavIn.channels) = 2
    /\ Len(wavIn.channels[1]) = MaxFrames
    /\ \A n \in 1 .. MaxFrames : wavIn.channels[1][n] # wavIn.channels[2][n]

(***************************************************************************)
(* The 16-bit samples of the artifact, read back.                           *)
(***************************************************************************)

\* DataView.getInt16, little-endian, at a byte offset (counted from 0)
Int16At(bytes, offset) ==
    LET v == Uint16At(bytes, offset)
    IN IF v >= 32768 THEN v - 65536 ELSE v

\* the positions <<channel, frame>> of the buffer handed to audioBufferToWav
WavPositions ==
    {<<c, n>> : c \in 1 .. Len(wavIn.channels), n \in 1 .. Len(wavIn.channels[1])}

\* the input sample at a position, in hundredths of full scale
WavSample(p) == wavIn.channels[p[1]][p[2]]

\* the 16-bit integer the artifact holds for a position
WavInt16(p) ==
    Int16At(wavOut, 44 + 2 * ((p[2] - 1) * Len(wavIn.channels) + (p[1] - 1)))

\* C21: every input sample, also one outside [-1, 1], becomes a 16-bit
\* integer without wrap-around: the sample clamped to [-1, 1] times 32768
\* when negative and times 32767 otherwise, truncated; so a sample <= -1 gives
\* -32768, a sample >= 1 gives 32767, 0 gives 0, and a larger sample never
\* gives a smaller integer.
C21_Pcm16ClampedMonotone ==
    wavOut # NoBytes =>
        /\ \A p \in WavPositions :
              LET s == WavSample(p)
                  t == IF s < -100 THEN -100 ELSE IF s > 100 THEN 100 ELSE s
                  k == WavInt16(p)
              IN /\ k \in -32768 .. 32767
                 /\ t < 0 => k = -((-t * 32768) \div 100)
                 /\ t >= 0 => k = (t * 32767) \div 100
                 /\ s <= -100 => k = -32768
                 /\ s >= 100 => k = 32767
                 /\ s = 0 => k = 0
        /\ \A p, q \in WavPositions :
              WavSample(p) <= WavSample(q) => WavInt16(p) <= WavInt16(q)

\* the artifact of a buffer that holds a sample below -1, one above 1, zero
\* and a small negative sample
C21_Witness ==
    /\ wavOut # NoBytes
    /\ {WavSample(p) : p \in WavPositions} = {-150, 150, 0, -1}

\* the number of frames per channel a reader of the artifact finds: the data
\* chunk length over the block align
DecodedFrames == Uint32At(wavOut, 40) \div Uint16At(wavOut, 32)

\* the error of a position after the round trip, in hundredths of one
\* quantization step 1/32768: a 16-bit PCM integer k stands for the sample
\* k / 32768, and the input sample is s / 100
RoundTripError(p) ==
    LET d == WavSample(p) * 32768 - 100 * WavInt16(p)
    IN IF d < 0 THEN -d ELSE d

\* C22: lossless round trip in 16-bit mode: for a buffer whose samples lie in
\* [-1, 1], the artifact decoded back has the same number of samples per
\* channel and every sample differs from the original by at most 1/32768.
C22_LosslessRoundTrip ==
    /\ wavOut # NoBytes
    /\ \A p \in WavPositions : WavSample(p) \in -100 .. 100
    => /\ DecodedFrames = Len(wavIn.channels[1])
       /\ \A p \in WavPositions : RoundTripError(p) <= 100

(***************************************************************************)
(* Reordering.                                                              *)
(***************************************************************************)

\* the tracks of a list as a bag (each track record with its multiplicity)
TrackBag(ts) ==
    [t \in {ts[i] : i \in 1 .. Len(ts)} |->
        Cardinality({i \in 1 .. Len(ts) : ts[i] = t})]

\* C23: a move only permutes the track list: the same tracks with the same
\* gain, mute and solo values remain; moving the first track up or the last
\* track down changes nothing; and the mix of the reordered list is the mix
\* of the original list.
C23_MoveOnlyPermutes ==
    [][\A index \in 0 .. MaxTracks - 1 : \A direction \in Directions :
          MoveTrack(index, direction) =>
             /\ Len(tracks') = Len(tracks)
             /\ TrackBag(tracks') = TrackBag(tracks)
             /\ (direction = "up" /\ index = 0) => tracks' = tracks
             /\ (direction = "down" /\ index = Len(tracks) - 1) => tracks' = tracks
             /\ BounceMix(tracks', masterVolume) = BounceMix(tracks, masterVolume)]_vars

\* a reordered list: the track added second stands before the track added
\* first, they differ in gain, one is soloed, and the list has a mix
C23_Witness ==
    /\ Len(tracks) >= 2
    /\ tracks[1].id > tracks[2].id
    /\ tracks[1].volume # tracks[2].volume
    /\ tracks[1].file # tracks[2].file
    /\ \E i \in 1 .. Len(tracks) : tracks[i].isSolo
    /\ BounceMix(tracks, masterVolume) # <<>>

----------------------------------------------------------------------------
(* SpecMp3: one run of the worker's self.onmessage on the message            *)
(* audioBufferToMp3 posts.  A sample is an integer in hundredths of full    *)
(* scale.  The encoder is lamejs: what a call returns is not decided by     *)
(* this code, so a call returns either nothing or bytes that name the call. *)

MaxBlocks == 2

SampleBlockSize == 1152

\* the lengths of the mix: one sample, and one less than, exactly and one
\* more than a whole number of blocks
Mp3Lengths ==
    {1} \cup {b * SampleBlockSize + d : b \in 1 .. MaxBlocks, d \in {-1, 0, 1}}

\* the samples of a channel repeat one of these periods
Mp3Periods == {<<90, -90>>, <<-100, 100>>, <<150, -150>>, <<0, -1>>}

\* a Float32Array of a length filled with a period
Periodic(period, length) ==
    [n \in 1 .. length |-> period[((n - 1) % Len(period)) + 1]]

\* the message audioBufferToMp3 posts: a mono buffer sends a copy of the
\* left samples as samplesR
Mp3Messages ==
    {[channels |-> 2, samplesL |-> Periodic(l, n), samplesR |-> Periodic(r, n)] :
        l \in Mp3Periods, r \in Mp3Periods, n \in Mp3Lengths}
    \cup {[channels |-> 1, samplesL |-> Periodic(l, n), samplesR |-> Periodic(l, n)] :
        l \in Mp3Periods, n \in Mp3Lengths}

\* the store of a number into an Int16Array element: truncated toward zero,
\* modulo 2^16, in two's complement
ToInt16(num, den) ==
    LET mag == (IF num < 0 THEN -num ELSE num) \div den
        t == IF num < 0 THEN -mag ELSE mag
    IN ((t + 32768) % 65536) - 32768

\* the conversion with one scale factor for both signs
Lossy16Symmetric(sample) ==
    ToInt16(Max(-100, Min(100, sample)) * 32767, 100)

\* val < 0 ? val * 0x8000 : val * 0x7FFF of the clamped sample
Lossy16(sample) ==
    LET val == Max(-100, Min(100, sample))
    IN IF val < 0 THEN ToInt16(val * 32768, 100) ELSE ToInt16(val * 32767, 100)

\* the conversion loop: both Int16Arrays are filled
Convert ==
    /\ mp3.pc = "received"
    /\ mp3' = [mp3 EXCEPT
                 !.samplesL_int16 = [n \in 1 .. Len(mp3.samplesL) |->
                                        Lossy16(mp3.samplesL[n])],
                 !.samplesR_int16 = [n \in 1 .. Len(mp3.samplesL) |->
                                        Lossy16(mp3.samplesR[n])],
                 !.i = 0,
                 !.pc = "encoding"]

\* typedArray.subarray(begin, end): end is clamped to the length
Subarray(a, begin, end) == SubSeq(a, begin + 1, Min(end, Len(a)))

\* what an encoder call can return: nothing, or bytes of that call
EncoderOutputs(call) == {<<>>, <<call>>}

\* mp3Data after  if (mp3buf.length > 0) mp3Data.push(mp3buf)
Pushed(mp3Data, mp3buf) ==
    IF Len(mp3buf) > 0 THEN Append(mp3Data, mp3buf) ELSE mp3Data

\* one pass of the encode loop whose chunks leave out the last sample
EncodeBlockShort(mp3buf) ==
    /\ mp3.pc = "encoding"
    /\ mp3.i < Len(mp3.samplesL)
    /\ LET chunkL == Subarray(mp3.samplesL_int16, mp3.i, mp3.i + SampleBlockSize - 1)
           chunkR == Subarray(mp3.samplesR_int16, mp3.i, mp3.i + SampleBlockSize - 1)
       IN mp3' = [mp3 EXCEPT
                    !.calls = Append(@, [op |-> "encodeBuffer", begin |-> mp3.i,
                                         left |-> chunkL, right |-> chunkR,
                                         out |-> mp3buf]),
                    !.mp3Data = Pushed(@, mp3buf),
                    !.i = @ + SampleBlockSize]

\* one pass of the encode loop
EncodeBlock(mp3buf) ==
    /\ mp3.pc = "encoding"
    /\ mp3.i < Len(mp3.samplesL)
    /\ LET chunkL == Subarray(mp3.samplesL_int16, mp3.i, mp3.i + SampleBlockSize)
           chunkR == Subarray(mp3.samplesR_int16, mp3.i, mp3.i + SampleBlockSize)
       IN mp3' = [mp3 EXCEPT
                    !.calls = Append(@, [op |-> "encodeBuffer", begin |-> mp3.i,
                                         left |-> chunkL, right |-> chunkR,
                                         out |-> mp3buf]),
                    !.mp3Data = Pushed(@, mp3buf),
                    !.i = @ + SampleBlockSize]

\* new Blob(parts): the bytes of the parts one after the other
RECURSIVE BlobOf(_)
BlobOf(parts) ==
    IF parts = <<>> THEN <<>> ELSE Head(parts) \o BlobOf(Tail(parts))

\* after the loop: mp3encoder.flush(), the Blob and self.postMessage({ blob })
FlushAndPost(mp3buf) ==
    /\ mp3.pc = "encoding"
    /\ mp3.i >= Len(mp3.samplesL)
    /\ LET mp3Data == Pushed(mp3.mp3Data, mp3buf)
       IN mp3' = [mp3 EXCEPT
                    !.calls = Append(@, [op |-> "flush", begin |-> mp3.i,
                                         left |-> <<>>, right |-> <<>>,
                                         out |-> mp3buf]),
                    !.mp3Data = mp3Data,
                    !.blob = BlobOf(mp3Data),
                    !.pc = "posted"]

InitMp3 ==
    /\ \E m \in Mp3Messages :
          mp3 = [Mp3Idle EXCEPT !.pc = "received", !.channels = m.channels,
                                !.samplesL = m.samplesL, !.samplesR = m.samplesR]
    /\ tracks = <<>>
    /\ masterVolume = DefaultMasterVolume
    /\ isExporting = FALSE
    /\ exp = IdleExport
    /\ MenuAtRest /\ GainAtRest /\ MeterAtRest /\ TimelineAtRest /\ DurationAtRest
    /\ WavAtRest

mp3Frame ==
    <<appVars, menuVars, gainVars, meterVars, timelineVars, durationVars, wavVars>>

NextMp3 ==
    \/ Convert /\ UNCHANGED mp3Frame
    \/ \E mp3buf \in EncoderOutputs(Len(mp3.calls) + 1) :
          EncodeBlock(mp3buf) /\ UNCHANGED mp3Frame
    \/ \E mp3buf \in EncoderOutputs(Len(mp3.calls) + 1) :
          FlushAndPost(mp3buf) /\ UNCHANGED mp3Frame

SpecMp3 == InitMp3 /\ [][NextMp3]_vars

\* the concatenation of a field of the calls, in call order
RECURSIVE CallsConcat(_, _)
CallsConcat(calls, field) ==
    IF calls = <<>> THEN <<>>
    ELSE Head(calls)[field] \o CallsConcat(Tail(calls), field)

\* C24: for a mix of N samples the worker feeds the encoder ceil(N / 1152)
\* consecutive, non-overlapping blocks in increasing index order, each of
\* 1152 samples except possibly the last, so that every sample is encoded
\* exactly once; flush is called exactly once, after the last block; the
\* artifact is the block outputs followed by the flush output in call order.
C24_BlocksThenFlush ==
    mp3.pc = "posted" =>
        LET N == Len(mp3.samplesL)
            B == CeilDiv(N, SampleBlockSize)
            calls == mp3.calls
        IN /\ Len(calls) = B + 1
           /\ \A j \in 1 .. B :
                 /\ calls[j].op = "encodeBuffer"
                 /\ calls[j].begin = (j - 1) * SampleBlockSize
                 /\ Len(calls[j].left) = Len(calls[j].right)
                 /\ j < B => Len(calls[j].left) = SampleBlockSize
                 /\ j = B => Len(calls[j].left) = N - (B - 1) * SampleBlockSize
           /\ CallsConcat(calls, "left") = mp3.samplesL_int16
           /\ CallsConcat(calls, "right") = mp3.samplesR_int16
           /\ calls[B + 1].op = "flush"
           /\ mp3.blob = CallsConcat(calls, "out")

\* a posted artifact of a mix one sample longer than MaxBlocks blocks, in
\* which the first block returned nothing and the flush returned bytes
C24_Witness ==
    /\ mp3.pc = "posted"
    /\ Len(mp3.samplesL) = MaxBlocks * SampleBlockSize + 1
    /\ Len(mp3.calls) = MaxBlocks + 2
    /\ mp3.calls[1].out = <<>>
    /\ mp3.calls[MaxBlocks + 2].out # <<>>
    /\ Len(mp3.blob) >= 2

\* the two channels of the worker: the float samples and their Int16Array
Mp3Channels ==
    {[samples |-> mp3.samplesL, int16 |-> mp3.samplesL_int16],
     [samples |-> mp3.samplesR, int16 |-> mp3.samplesR_int16]}

\* the sample values of a channel that lie in [-1, 1]
InRangeValues(ch) ==
    {ch.samples[n] : n \in 1 .. Len(ch.samples)} \cap (-100 .. 100)

\* the integers a channel's conversion produced for the sample value x
Produced(ch, x) ==
    {ch.int16[n] : n \in {m \in 1 .. Len(ch.samples) : ch.samples[m] = x}}

\* the conversion loop has run and the encode loop has not started (the
\* Int16Arrays are not written after that)
Converted == mp3.pc = "encoding" /\ mp3.i = 0

\* C25 as stated: the lossy conversion is symmetric: on each channel, for
\* every sample x in [-1, 1], the integer produced for -x is the negation of
\* the integer produced for x.
C25_LossySymmetric ==
    Converted =>
        \A ch \in Mp3Channels : \A x \in InRangeValues(ch) :
            -x \in InRangeValues(ch) =>
                Produced(ch, -x) = {-k : k \in Produced(ch, x)}

\* C25 as amended: on each channel a sample is clamped to [-1, 1], scaled by
\* 32768 when negative and by 32767 otherwise, and truncated toward zero; so
\* for x in (0, 1] the integer produced for -x is the negation of the integer
\* produced for x or one below it, and 0 gives 0.  A mono source's right
\* channel gets the integers of the left.
C25_LossyClampScaleTruncate ==
    Converted =>
        /\ \A ch \in Mp3Channels :
              /\ Len(ch.int16) = Len(ch.samples)
              /\ \A n \in 1 .. Len(ch.samples) :
                    LET s == ch.samples[n]
                        t == IF s < -100 THEN -100 ELSE IF s > 100 THEN 100 ELSE s
                    IN /\ t < 0 => ch.int16[n] = -((-t * 32768) \div 100)
                       /\ t >= 0 => ch.int16[n] = (t * 32767) \div 100
              /\ \A x \in InRangeValues(ch) :
                    x > 0 /\ -x \in InRangeValues(ch) =>
                       \A k \in Produced(ch, x) : \A m \in Produced(ch, -x) :
                          m \in {-k, -k - 1}
        /\ mp3.channels = 1 => mp3.samplesR_int16 = mp3.samplesL_int16

\* a converted stereo message whose left channel holds 1 and -1 and whose
\* right channel holds 0.9 and -0.9
C25_Witness ==
    /\ Converted
    /\ mp3.channels = 2
    /\ Len(mp3.samplesL) > SampleBlockSize
    /\ Produced([samples |-> mp3.samplesL, int16 |-> mp3.samplesL_int16], 100) = {32767}
    /\ Produced([samples |-> mp3.samplesL, int16 |-> mp3.samplesL_int16], -100) = {-32768}
    /\ Produced([samples |-> mp3.samplesR, int16 |-> mp3.samplesR_int16], 90) = {29490}
    /\ Produced([samples |-> mp3.samplesR, int16 |-> mp3.samplesR_int16], -90) = {-29491}

----------------------------------------------------------------------------
(* SpecPeaks: GlobalTimeline over a list of decoded tracks of 5 to 16       *)
(* samples, its summary computed at widths of 4 and 8 buckets.              *)

PeakFiles == {"bar16", "bar8", "bar5"}

\* containerRef.current.clientWidth when generatePeaks runs
PeakWidths == {4, 8}

\* a decoded track
PeakTrackStates ==
    {[id |-> 0, file |-> f, volume |-> v, isMuted |-> m, isSolo |-> FALSE,
      duration |-> Duration(FileBuffer(f)), audioBuffer |-> f] :
        f \in PeakFiles, v \in TrackVolumes, m \in BOOLEAN}

PeakTrackLists ==
    UNION {{[i \in 1 .. n |-> [ts[i] EXCEPT !.id = i]] : ts \in [1 .. n -> PeakTrackStates]} :
            n \in 1 .. MaxTracks}

\* the tracks are decoded and the effect of GlobalTimeline has set its timeout
InitPeaks ==
    /\ tracks \in PeakTrackLists
    /\ masterVolume = DefaultMasterVolume
    /\ isExporting = FALSE
    /\ exp = IdleExport
    /\ mergedPeaks = NoSummary
    /\ peakTimer = <<tracks>>
    /\ playbackDuration = MaxDur(tracks)
    /\ maxDurationRef = MaxDur(tracks)
    /\ MenuAtRest /\ GainAtRest /\ MeterAtRest /\ WavAtRest /\ Mp3AtRest

NextPeaks ==
    \/ \E id \in IdPool :
          /\ HandleMuteToggle(id)
          /\ TimelineEffect
          /\ UNCHANGED <<durationVars, timelineFrame>>
    \/ \E width \in PeakWidths : GeneratePeaksTimeout(width) /\ UNCHANGED timelineFrame

SpecPeaks == InitPeaks /\ [][NextPeaks]_vars

\* the summary on display was computed from the current track list
SummaryFresh == peakTimer = <<>> /\ mergedPeaks # NoSummary

\* the positions of the tracks that are decoded and not muted
Drawn == {n \in 1 .. Len(tracks) : tracks[n].audioBuffer # NoBuffer /\ ~tracks[n].isMuted}

\* the largest duration over all tracks, muted or not
LongestDuration ==
    CHOOSE d \in {tracks[n].duration : n \in 1 .. Len(tracks)} :
        \A n \in 1 .. Len(tracks) : tracks[n].duration <= d

\* the left channel of track n
LeftData(n) == FileBuffer(tracks[n].audioBuffer).channels[1]

\* the number of buckets track n may write in a summary of W buckets
ActiveBuckets(n, W) == (W * tracks[n].duration) \div LongestDuration

\* the gain-scaled value of track n for bucket i (counted from 0)
ScaledBucket(n, W, i) ==
    BucketMax(LeftData(n), CeilDiv(Len(LeftData(n)), W), i) * tracks[n].volume

TicksPerSample(n) == TickRate \div FileBuffer(tracks[n].audioBuffer).sampleRate

\* step of track n in a summary of W buckets
StepOf(n, W) == CeilDiv(Len(LeftData(n)), W)

\* C30: the summary is time-aligned across tracks of different lengths: for
\* every Ready unmuted track, bucket i is computed from the track's samples
\* at time offset i * maxDur / W, within one bucket width; every sample index
\* read lies inside the track's buffer; and the populated buckets of a track
\* together span it from its first sample to its end (to within the one
\* bucket that rounding down may leave out).  Times are compared after
\* multiplying by W: a bucket is maxDur wide.
C30_BucketsTimeAligned ==
    SummaryFresh =>
        LET W == Len(mergedPeaks)
        IN \A n \in Drawn :
              /\ \A i \in 0 .. ActiveBuckets(n, W) - 1 :
                    \A idx \in ProbesRead(LeftData(n), StepOf(n, W), i) :
                       /\ idx \in 0 .. Len(LeftData(n)) - 1
                       /\ W * idx * TicksPerSample(n) >= (i - 1) * LongestDuration
                       /\ W * idx * TicksPerSample(n) <= (i + 2) * LongestDuration
              /\ ActiveBuckets(n, W) > 0 =>
                    /\ 0 \in ProbesRead(LeftData(n), StepOf(n, W), 0)
                    /\ W * (Len(LeftData(n)) - ActiveBuckets(n, W) * StepOf(n, W))
                          * TicksPerSample(n) <= LongestDuration

(***************************************************************************)
(* The debounce of the recomputation (SpecTimeline).                        *)
(***************************************************************************)

\* at most one recomputation is pending, and a pending one closes over the
\* current track list, so that none fires for a superseded list
DebouncePending ==
    /\ Len(peakTimer) <= 1
    /\ \A k \in 1 .. Len(peakTimer) : peakTimer[k] = tracks

\* C27: the recomputation is debounced: a change of the track set cancels
\* the pending recomputation, so that at most one is pending at any time and
\* no summary is installed from a superseded track set; and once the changes
\* have stopped (nothing is pending), the summary installed is the one
\* computed from the latest track set.
C27_DebouncedRecomputation ==
    /\ DebouncePending
    /\ peakTimer = <<>> /\ mergedPeaks # NoSummary =>
          \E width \in Widths : mergedPeaks = GeneratePeaks(tracks, width)

(***************************************************************************)
(* The dB fields left as they were found (SpecGain).                        *)
(***************************************************************************)

\* the text of the track's dB field is the one shown when it got the focus:
\* the level of the gain, or of 0 for a muted track
RowTextUntouched == row.dbInput = GetDbValue(IF row.isMuted THEN 0 ELSE row.volume)

\* the text of the master dB field is the one shown when it got the focus
MasterTextUntouched == master.dbInput = GetDbValue(master.volume)

\* C28: focusing a dB field and leaving it (blur or Enter) with its text
\* unchanged leaves the gain unchanged, for the track's field and for the
\* master's, in every state, also for a muted track and for a gain at or
\* below 0.0001.
C28_FocusBlurKeepsGain ==
    [][/\ RowCommitDbChange /\ RowTextUntouched => row'.volume = row.volume
       /\ MasterCommitDbChange /\ MasterTextUntouched =>
             master'.volume = master.volume]_vars

(***************************************************************************)
(* The peak cap and the bar (SpecMeter).                                    *)
(***************************************************************************)

MeterChannels == {"l", "r"}

====
